---- MODULE Spec2Model ----
(***************************************************************************)
(* Model of the Trader worker (src/trader.py): run_forever, _signals,      *)
(* _loop, _terminate and cancel_symbol_orders, together with the order     *)
(* gateway (the broker's order book for the worker's symbol), the order    *)
(* and price maps of the cache server (src/zmq_msg.py) and the supervisor's*)
(* shutdown flag (src/main.py).  A second Trader thread that trades        *)
(* another symbol on the same account stands for the other workers of      *)
(* main, and the callbacks of the streamer (src/streamer.py) feed the      *)
(* cache server.                                                           *)
(*                                                                         *)
(* A tick of run_forever is split at the points where the worker talks to  *)
(* the outside world and sleeps (submit_order, then get_order after        *)
(* order_status_check_delay), so that the gateway, the ingest path and the *)
(* supervisor can act in between.                                          *)
(***************************************************************************)
EXTENDS Integers, Sequences, FiniteSets, TLC

\* ---------------------------------------------------------------- bounds
MaxOrders == 3       \* orders the gateway accepts in one run
MaxCancelCalls == 2  \* cancel_symbol_orders calls after which cancelling no longer fails
MaxOtherOrders == 1  \* orders the second worker places in one run
MaxEmails == 2       \* immediate status e-mails counted for one order
MaxEvents == 3       \* events the stream delivers in one run
MaxRequests == 4     \* requests sent to the cache server in one run

\* config.retry_order_creation as shipped (config.py:32)
RetryOrderCreation == 2

\* the prices and spreads of the strategy as shipped (strategy.py:13-31)
initial_oco_price == 239
initial_limit_spread == 1
loop_signal_price == 220
loop_trade_spread == 2
loop_limit_spread == 2
jump_loop_order == 4
jump_limit_spread == 4
oco_limit_price == 270

\* trader.py:615-616: the length of uuid4().hex and the cut of the order id
UuidHexLength == 32
MaxClientOrderIdLength == 48

\* Trader.symbol of the worker (stock_2.py:5) and of the second worker (strategy.py:5)
Symbol == "MSFT"
OtherSymbol == "AAPL"

Sides == {"buy", "sell"}
Terminal == {"filled", "rejected", "canceled"}
Prices == {99, 102, 105}
NoPrice == 0
None == << >>

\* the processes holding a Client (zmq_msg.py:39-43) of the cache server:
\* the streamer (streamer.py) and the Trader threads (trader.py:90)
Writers == {"streamer"}
Readers == {"trader1", "trader2"}
Clients == Writers \cup Readers

\* the price ticks and order updates the streamer writes
Symbols == {"AAPL", "MSFT"}
PriceData ==
    {[symbol |-> "AAPL", price |-> 100, timestamp |-> 10],
     [symbol |-> "AAPL", price |-> 99, timestamp |-> 5],
     [symbol |-> "AAPL", price |-> 101, timestamp |-> 15],
     [symbol |-> "MSFT", price |-> 100, timestamp |-> 10],
     [symbol |-> "MSFT", price |-> 99, timestamp |-> 5]}
OrderData ==
    {[id |-> i, status |-> u[1], updated_at |-> u[2]] :
        i \in {1, 2}, u \in {<<"new", 1>>, <<"filled", 2>>}}

VARIABLES
    config,                 \* the config module (read-only after construction)
    strategy,               \* the strategy module (read-only after construction)
    state,                  \* Trader.state, a dict
    retry_order_creation,   \* Trader.retry_order_creation
    shutdown_flag,          \* Trader._shutdown_flag
    pc,                     \* where the worker thread is inside run_forever
    order,                  \* local `order` of _loop: None or <<dict>>
    last_order,             \* local `last_order` of _loop: None or <<dict>>
    orders,                 \* the gateway's orders, indexed by order id
    cacheOrders,            \* Server.orders of the cache
    cachePrice,             \* Server.prices[symbol]['price'] of the cache
    attempts,               \* submit_order calls made for the order being created
    cancelCalls,            \* number of cancel_symbol_orders calls made so far
    cancelDone,             \* cancel_symbol_orders has returned normally
    exit,                   \* how run_forever ended: running, SystemExit, exception
    reason,                 \* the reason logged by _terminate
    recorded,               \* ids successively stored in state['last_order_id']
    triggered,              \* some cached price so far satisfied the initial trigger
    alerts,                 \* reasons passed to _send_termination_alert so far
    order_parameters,       \* local `order_parameters` of _loop, or None
    main_pc,                \* where the supervisor is inside main (main.py:152-183)
    user_input,             \* local `user_input` of main: None or the dict of the last line typed
    other_worker,           \* a second Trader thread of main: its flag, is_alive() and gateway orders
    status_emails,          \* immediate status e-mails sent about the order in state['last_order_id']
    events_received,        \* events the market-data stream delivered to the streamer callbacks
    last_updated,           \* Server.last_updated
    server_orders,          \* Server.orders, in the detailed model of Server.run
    server_prices,          \* Server.prices, in the detailed model of Server.run
    server_running,         \* Server.run has not been left by an exception
    message,                \* local `message` of Server.run with its sender, or None
    requests,               \* per client: the request sent and not yet received
    replies,                \* per client: the reply its last request returned
    log,                    \* the requests received by the server, with their replies
    now                     \* time.time()

vars == <<config, strategy, state, retry_order_creation, shutdown_flag, pc,
          order, last_order, orders, cacheOrders, cachePrice, attempts,
          cancelCalls, cancelDone, exit, reason, recorded, triggered, alerts,
          order_parameters, main_pc, user_input, other_worker, status_emails,
          events_received,
          last_updated, server_orders, server_prices, server_running, message,
          requests, replies, log, now>>

cfgVars == <<config, strategy>>
histVars == <<recorded, triggered>>
envVars == <<shutdown_flag, cacheOrders, cachePrice>>
termVars == <<cancelCalls, cancelDone, exit, reason>>
srvVars == <<last_updated, server_orders, server_prices, server_running, message,
             requests, replies, log, now>>
workerVars == <<cfgVars, histVars, envVars, termVars, alerts, state,
                retry_order_creation, pc, order, last_order, orders, attempts,
                order_parameters, other_worker, status_emails>>

\* ------------------------------------------------------- pure functions

\* the trigger condition of the specification's AWAITING_SIGNAL phase
Trigger(price, side) ==
    /\ price # NoPrice
    /\ IF side = "buy" THEN price <= strategy.initial_trade_price
                        ELSE price >= strategy.initial_trade_price

\* a side map that does not switch sides
side_map_same == [buy |-> "buy", sell |-> "sell"]

\* state['side_map'] (trader.py:342)
side_map == [buy |-> "sell", sell |-> "buy"]

\* an initial run that waits for the cached price to reach the trigger
initial_run_on_trigger ==
    state = << >> /\ Trigger(cachePrice, strategy.initial_order_side)

\* `if not self.state:` (trader.py:340): the dict is empty
initial_run == state = << >>

\* a _signals that ignores the shutdown flag
signals_never == FALSE

\* Trader._signals (trader.py:328-333): KeyboardInterrupt is raised
signals_raise == shutdown_flag

\* a get_order that asks the gateway (the streaming=False branch, trader.py:239-242)
get_order_gateway(order_id) ==
    IF order_id \in 1..Len(orders)
    THEN orders[order_id]
    ELSE [id |-> order_id, status |-> "new", legs |-> << >>]

\* a get_order that takes an order missing from the cache for rejected
get_order_absent_rejected(order_id) ==
    IF order_id \in DOMAIN cacheOrders
    THEN cacheOrders[order_id]
    ELSE [id |-> order_id, status |-> "rejected", legs |-> << >>]

\* Trader.get_order with streaming=True (trader.py:230-238)
get_order(order_id) ==
    IF order_id \in DOMAIN cacheOrders
    THEN cacheOrders[order_id]
    ELSE [id |-> order_id, status |-> "new", legs |-> << >>]

\* Trader.order_is_oco (trader.py:244-245)
order_is_oco(o) == o.legs # << >>

\* an oco_filled that knows the take-profit leg only
oco_filled_take_profit(o, leg) ==
    IF o.legs = << >> THEN FALSE
    ELSE IF leg = "take_profit" /\ o.status = "filled" THEN TRUE
    ELSE FALSE

\* Trader.oco_filled (trader.py:308-326)
oco_filled(o, leg) ==
    IF o.legs = << >> THEN FALSE
    ELSE IF leg = "take_profit" /\ o.status = "filled" THEN TRUE
    ELSE IF leg = "stop_loss" /\ o.legs[1].status = "filled" THEN TRUE
    ELSE FALSE

\* a fill test that also takes an order that is still open for filled
order_filled_or_open(o) == o.status # "rejected"

\* the condition of trader.py:417 under which a new loop order is placed
order_filled(o) == o.status = "filled" \/ oco_filled(o, "stop_loss")

\* a loop order that is a bracket order on either side
loop_is_oco_any_side(side) == strategy.oco_loop_order

\* the order_class of the loop order (trader.py:440, 481)
loop_is_oco(side) == strategy.oco_loop_order /\ side = "sell"

\* _make_strategy_safe (trader.py:520-609) for the limit order types shipped
\* in strategy.py, and the choice of prices at trader.py:346-359: the
\* limit and stop price of the initial order (NoPrice for None)
InitialPrices(side, oco) ==
    IF oco
    THEN [limit_price |-> IF side = "buy"
                          THEN initial_oco_price - initial_limit_spread
                          ELSE initial_oco_price + initial_limit_spread,
          stop_price |-> initial_oco_price]
    ELSE [limit_price |-> strategy.initial_trade_price, stop_price |-> NoPrice]

\* the prices of a loop order at the nominal spread (trader.py:422-460)
LoopPrices(side, oco) ==
    IF oco
    THEN [limit_price |-> oco_limit_price,
          stop_price |-> loop_signal_price - loop_trade_spread]
    ELSE [limit_price |-> IF side = "buy"
                          THEN loop_signal_price + loop_trade_spread + loop_limit_spread
                          ELSE loop_signal_price - loop_trade_spread - loop_limit_spread,
          stop_price |-> NoPrice]

\* the prices of a loop order at the jump spread (trader.py:481-491)
JumpPrices(side, oco) ==
    IF oco
    THEN [limit_price |-> oco_limit_price + jump_loop_order + jump_limit_spread,
          stop_price |-> loop_signal_price - jump_loop_order]
    ELSE [limit_price |-> IF side = "buy"
                          THEN loop_signal_price + jump_loop_order + jump_limit_spread
                          ELSE loop_signal_price - jump_loop_order - jump_limit_spread,
          stop_price |-> NoPrice]

\* a generator that hands out an id it has handed out before
generate_order_id_again(prefix) ==
    [prefix |-> prefix, length |-> 4 + 1 + UuidHexLength, used |-> TRUE]

PrefixLength(prefix) == IF prefix = "initial" THEN 7 ELSE 4

\* Trader._generate_order_id (trader.py:611-616): the prefix, a dash and a
\* new uuid4, cut at 48 characters; `used` tells that an attempt was made
\* with this id
generate_order_id(prefix) ==
    LET n == PrefixLength(prefix) + 1 + UuidHexLength
    IN [prefix |-> prefix,
        length |-> IF n <= MaxClientOrderIdLength THEN n ELSE MaxClientOrderIdLength,
        used |-> FALSE]

\* order_parameters of the initial order (trader.py:362-382)
initial_order_parameters ==
    LET side == strategy.initial_order_side
        prices == InitialPrices(side, strategy.oco_initial_order)
    IN [side |-> side, oco |-> strategy.oco_initial_order,
        limit_price |-> prices.limit_price, stop_price |-> prices.stop_price,
        client_order_id |-> generate_order_id("initial")]

\* order_parameters of a loop order (trader.py:440-460)
loop_order_parameters ==
    LET side == state.next_order_side
        prices == LoopPrices(side, loop_is_oco(side))
    IN [side |-> side, oco |-> loop_is_oco(side),
        limit_price |-> prices.limit_price, stop_price |-> prices.stop_price,
        client_order_id |-> generate_order_id("loop")]

\* a jump update that widens the prices once more at every use
jump_order_parameters_again ==
    LET prices == JumpPrices(order_parameters.side, order_parameters.oco)
    IN [order_parameters EXCEPT !.limit_price = prices.limit_price + jump_limit_spread,
                                !.stop_price = prices.stop_price,
                                !.client_order_id = generate_order_id("loop")]

\* order_parameters after the update for the jump loop (trader.py:481-491)
jump_order_parameters ==
    LET prices == JumpPrices(order_parameters.side, order_parameters.oco)
    IN [order_parameters EXCEPT !.limit_price = prices.limit_price,
                                !.stop_price = prices.stop_price,
                                !.client_order_id = generate_order_id("loop")]

\* order_parameters after submit_order was called with them
Attempted(p) == [p EXCEPT !.client_order_id.used = TRUE]

\* what the gateway creates for an accepted submit_order call
NewOrder(side, oco, prev) ==
    [id |-> Len(orders) + 1, symbol |-> Symbol, side |-> side, status |-> "new",
     legs |-> IF oco THEN <<[status |-> "new"]>> ELSE << >>, prev |-> prev]

\* the order created at the gateway for the given order_parameters
SubmittedOrder(p, prev) ==
    NewOrder(p.side, p.oco, prev)
        @@ [limit_price |-> p.limit_price, stop_price |-> p.stop_price,
            client_order_id |-> p.client_order_id.prefix]

\* client.cancel_order on one order of cancel_symbol_orders (trader.py:303-306)
Canceled(o) ==
    IF o.status = "new"
    THEN [o EXCEPT !.status = "canceled",
                   !.legs = IF o.legs = << >> THEN << >> ELSE <<[status |-> "canceled"]>>]
    ELSE o

\* client.list_orders(status='all') (trader.py:263-266, 300): the orders of
\* the account, those of the worker followed by those of the second worker
list_orders == orders \o other_worker.orders

\* a cancellation that does not look at the symbol of an order
cancel_all_orders(k) ==
    [i \in 1..Len(list_orders) |->
        IF i <= k /\ list_orders[i].status \notin {"canceled", "filled"}
        THEN Canceled(list_orders[i]) ELSE list_orders[i]]

\* Trader.cancel_symbol_orders (trader.py:297-306) having processed the
\* first k orders of the listing: the orders of the account after it
cancel_symbol_orders(k) ==
    [i \in 1..Len(list_orders) |->
        IF /\ i <= k
           /\ list_orders[i].symbol = Symbol
           /\ list_orders[i].status \notin {"canceled", "filled"}
        THEN Canceled(list_orders[i]) ELSE list_orders[i]]

\* the gateway's orders after a cancellation, split by the thread that placed them
AccountAfter(after) ==
    /\ orders' = SubSeq(after, 1, Len(orders))
    /\ other_worker' = [other_worker EXCEPT
                            !.orders = SubSeq(after, Len(orders) + 1, Len(after))]

\* Trader._send_status_email (trader.py:638-711) for the order read at
\* trader.py:405: a filled or rejected order is reported at once, whatever
\* the time since the last e-mail (trader.py:659-665)
send_immediately(o) == o.status \in {"filled", "rejected"}

send_status_email(o) ==
    status_emails' =
        IF strategy.enable_email_monitoring /\ send_immediately(o)
        THEN IF status_emails < MaxEmails THEN status_emails + 1 ELSE MaxEmails
        ELSE status_emails

\* Trader._send_termination_alert (trader.py:713-729); EmailSender.send
\* returns the error instead of raising it
send_termination_alert(r) == alerts' = alerts \cup {r}

\* ------------------------------------------------------------------ Init
InitWorker ==
    /\ config \in [retry_order_creation : 0..RetryOrderCreation]
    /\ strategy \in [initial_order_side : Sides,
                     oco_initial_order : BOOLEAN,
                     oco_loop_order : BOOLEAN,
                     enable_email_monitoring : BOOLEAN,
                     initial_trade_price : {100}]
    /\ state = << >>
    /\ retry_order_creation = config.retry_order_creation
    /\ shutdown_flag = FALSE
    /\ pc = "idle"
    /\ order = None
    /\ last_order = None
    /\ orders = << >>
    /\ cacheOrders = << >>
    /\ attempts = 0
    /\ cancelCalls = 0
    /\ cancelDone = FALSE
    /\ exit = "running"
    /\ reason = ""
    /\ recorded = << >>
    /\ alerts = {}
    /\ order_parameters = None
    /\ main_pc = "loop"
    /\ user_input = None
    /\ other_worker = [shutdown_flag |-> FALSE, alive |-> TRUE, orders |-> << >>]
    /\ status_emails = 0
    /\ events_received = 0

\* Server.__init__ (zmq_msg.py:7-14) and no request under way
InitServer ==
    /\ now = 1
    /\ last_updated = now
    /\ server_orders = << >>
    /\ server_prices = << >>
    /\ server_running = TRUE
    /\ message = None
    /\ requests = [c \in Clients |-> None]
    /\ replies = [c \in Clients |-> None]
    /\ log = << >>

\* the worker starts before any price tick reached the cache
Init ==
    /\ InitWorker
    /\ InitServer
    /\ cachePrice = NoPrice
    /\ triggered = FALSE

\* the worker starts with a price tick of its symbol in the cache
InitPrice ==
    /\ InitWorker
    /\ InitServer
    /\ cachePrice \in Prices
    /\ triggered = Trigger(cachePrice, strategy.initial_order_side)

\* ------------------------------------------------------------ _terminate

\* a _terminate whose SystemExit is swallowed by run_forever, which goes on
TerminateCaught(r) ==
    /\ AccountAfter(cancel_symbol_orders(Len(list_orders)))
    /\ cancelCalls' = cancelCalls + 1
    /\ cancelDone' = TRUE
    /\ reason' = r
    /\ exit' = "SystemExit"
    /\ pc' = "idle"

\* Trader._terminate (trader.py:731-742): cancel_symbol_orders returns and
\* SystemExit ends run_forever (re-raised at trader.py:190-191, or raised
\* inside an except clause of run_forever).
TerminateOk(r) ==
    /\ AccountAfter(cancel_symbol_orders(Len(list_orders)))
    /\ cancelCalls' = cancelCalls + 1
    /\ cancelDone' = TRUE
    /\ reason' = r
    /\ exit' = "SystemExit"
    /\ pc' = "done"

\* Trader._terminate when list_orders or cancel_order raises after k orders.
\* Called from _loop the exception reaches the catch-all of run_forever
\* (trader.py:193-196); called from an except clause it leaves run_forever.
TerminateRaises(r, caught) ==
    /\ cancelCalls < MaxCancelCalls
    /\ \E k \in 0..Len(list_orders) :
          /\ (k = Len(list_orders) => k = 0)
          /\ AccountAfter(cancel_symbol_orders(k))
    /\ cancelCalls' = cancelCalls + 1
    /\ reason' = r
    /\ UNCHANGED cancelDone
    /\ IF caught
       THEN /\ pc' = "idle"
            /\ exit' = exit
       ELSE /\ pc' = "done"
            /\ exit' = "exception"

\* ----------------------------------------------- run_forever: the signals

\* a shutdown that does not wait for the start of a tick
ShutdownPreempts ==
    /\ pc # "done"
    /\ signals_raise
    /\ TerminateOk("User interruption.")
    /\ UNCHANGED <<main_pc, user_input, events_received, status_emails, srvVars, order_parameters, cfgVars, histVars, alerts, envVars, state, retry_order_creation,
                   order, last_order, attempts>>

\* _signals raises KeyboardInterrupt (trader.py:332-333), handled at
\* trader.py:187-188 by _terminate.
ShutdownTerminate ==
    /\ pc = "idle"
    /\ signals_raise
    /\ TerminateOk("User interruption.")
    /\ UNCHANGED <<main_pc, user_input, events_received, status_emails, srvVars, order_parameters, cfgVars, histVars, alerts, envVars, state, retry_order_creation,
                   order, last_order, attempts>>

ShutdownTerminateRaises ==
    /\ pc = "idle"
    /\ signals_raise
    /\ TerminateRaises("User interruption.", FALSE)
    /\ UNCHANGED <<main_pc, user_input, events_received, status_emails, srvVars, order_parameters, cfgVars, histVars, alerts, envVars, state, retry_order_creation,
                   order, last_order, attempts>>

\* ------------------------------------------------ _loop: the initial run

\* trader.py:340-399, submit_order returns an order
InitialSubmitOk ==
    /\ pc = "idle" /\ ~signals_raise
    /\ initial_run
    /\ Len(orders) < MaxOrders
    /\ LET side == strategy.initial_order_side
           new == SubmittedOrder(initial_order_parameters, 0)
       IN /\ orders' = Append(orders, new)
          /\ order' = <<new>>
          /\ retry_order_creation' = config.retry_order_creation
          /\ state' = [side_map |-> side_map,
                       last_order_id |-> new.id,
                       next_order_side |-> side_map[side]]
          /\ recorded' = Append(recorded, new.id)
    /\ attempts' = 0
    /\ status_emails' = 0
    /\ order_parameters' = Attempted(initial_order_parameters)
    /\ UNCHANGED <<main_pc, user_input, events_received, other_worker, srvVars, cfgVars, envVars, termVars, pc, last_order, triggered, alerts>>

\* trader.py:390-391 and 171-179: APIError, retries left
InitialSubmitRejected ==
    /\ pc = "idle" /\ ~signals_raise
    /\ initial_run
    /\ retry_order_creation > 0
    /\ retry_order_creation' = retry_order_creation - 1
    /\ state' = << >>
    /\ order' = None
    /\ attempts' = attempts + 1
    /\ order_parameters' = Attempted(initial_order_parameters)
    /\ UNCHANGED <<main_pc, user_input, events_received, other_worker, status_emails, srvVars, cfgVars, histVars, alerts, envVars, termVars, pc, last_order, orders>>

\* trader.py:390-391 and 180-185: APIError, no retries left
InitialRetriesExhausted ==
    /\ pc = "idle" /\ ~signals_raise
    /\ initial_run
    /\ retry_order_creation = 0
    /\ state' = [side_map |-> side_map]
    /\ order' = None
    /\ attempts' = attempts + 1
    /\ IF strategy.enable_email_monitoring
       THEN send_termination_alert("Max order creation retries reached.")
       ELSE UNCHANGED alerts
    /\ TerminateOk("Max order creation retries reached.")
    /\ order_parameters' = Attempted(initial_order_parameters)
    /\ UNCHANGED <<main_pc, user_input, events_received, status_emails, srvVars, cfgVars, histVars, envVars, retry_order_creation, last_order>>

\* the same, cancel_symbol_orders raising inside the except clause
InitialRetriesExhaustedCancelRaises ==
    /\ pc = "idle" /\ ~signals_raise
    /\ initial_run
    /\ retry_order_creation = 0
    /\ state' = [side_map |-> side_map]
    /\ order' = None
    /\ attempts' = attempts + 1
    /\ IF strategy.enable_email_monitoring
       THEN send_termination_alert("Max order creation retries reached.")
       ELSE UNCHANGED alerts
    /\ TerminateRaises("Max order creation retries reached.", FALSE)
    /\ order_parameters' = Attempted(initial_order_parameters)
    /\ UNCHANGED <<main_pc, user_input, events_received, status_emails, srvVars, cfgVars, histVars, envVars, retry_order_creation, last_order>>

\* trader.py:386 raising something other than APIError: the catch-all of
\* run_forever (trader.py:193-196) ends the tick, state keeps side_map
InitialSubmitRaises ==
    /\ pc = "idle" /\ ~signals_raise
    /\ initial_run
    /\ state' = [side_map |-> side_map]
    /\ attempts' = attempts + 1
    /\ order_parameters' = Attempted(initial_order_parameters)
    /\ UNCHANGED <<main_pc, user_input, events_received, other_worker, status_emails, srvVars, cfgVars, histVars, alerts, envVars, termVars, pc, order, last_order,
                   orders, retry_order_creation>>

\* trader.py:404 with a state that holds side_map only: KeyError, catch-all
LoopKeyError ==
    /\ pc = "idle" /\ ~signals_raise
    /\ ~initial_run
    /\ "last_order_id" \notin DOMAIN state
    /\ UNCHANGED <<main_pc, user_input, events_received, other_worker, status_emails, srvVars, order_parameters, cfgVars, histVars, alerts, envVars, termVars, pc, state, order,
                   last_order, orders, retry_order_creation, attempts>>

\* --------------------------------------------- _loop: polling last order

Polling ==
    /\ pc = "idle" /\ ~signals_raise
    /\ ~initial_run
    /\ "last_order_id" \in DOMAIN state

\* trader.py:405-408: the cache read or the status e-mail raises
PollRaises ==
    /\ Polling
    /\ UNCHANGED <<main_pc, user_input, events_received, other_worker, status_emails, srvVars, order_parameters, cfgVars, histVars, alerts, envVars, termVars, pc, state, order,
                   last_order, orders, retry_order_creation, attempts>>

\* trader.py:405-417: the last order is not filled, nothing to do
PollNotFilled ==
    /\ Polling
    /\ LET lo == get_order(state.last_order_id)
       IN /\ ~oco_filled(lo, "take_profit")
          /\ ~order_filled(lo)
          /\ last_order' = <<lo>>
          /\ send_status_email(lo)
    /\ UNCHANGED <<main_pc, user_input, events_received, other_worker, srvVars, order_parameters, cfgVars, histVars, alerts, envVars, termVars, pc, state, order,
                   orders, retry_order_creation, attempts>>

\* trader.py:411-414: take profit of an OCO order filled
PollTakeProfit ==
    /\ Polling
    /\ LET lo == get_order(state.last_order_id)
       IN /\ oco_filled(lo, "take_profit")
          /\ last_order' = <<lo>>
          /\ send_status_email(lo)
    /\ strategy.enable_email_monitoring
    /\ send_termination_alert("Take profit OCO order filled.")
    /\ TerminateOk("Take profit OCO order filled.")
    /\ UNCHANGED <<main_pc, user_input, events_received, srvVars, order_parameters, cfgVars, histVars, envVars, state, order,
                   retry_order_creation, attempts>>

\* the same, cancel_symbol_orders raising: caught by the catch-all
PollTakeProfitCancelRaises ==
    /\ Polling
    /\ LET lo == get_order(state.last_order_id)
       IN /\ oco_filled(lo, "take_profit")
          /\ last_order' = <<lo>>
          /\ send_status_email(lo)
    /\ strategy.enable_email_monitoring
    /\ send_termination_alert("Take profit OCO order filled.")
    /\ TerminateRaises("Take profit OCO order filled.", TRUE)
    /\ UNCHANGED <<main_pc, user_input, events_received, srvVars, order_parameters, cfgVars, histVars, envVars, state, order,
                   retry_order_creation, attempts>>

\* trader.py:413 when __init__ created no email_sender (trader.py:85-88):
\* AttributeError, caught by the catch-all of run_forever
PollTakeProfitNoSender ==
    /\ Polling
    /\ LET lo == get_order(state.last_order_id)
       IN /\ oco_filled(lo, "take_profit")
          /\ last_order' = <<lo>>
    /\ ~strategy.enable_email_monitoring
    /\ UNCHANGED <<main_pc, user_input, events_received, other_worker, status_emails, srvVars, order_parameters, cfgVars, histVars, alerts, envVars, termVars, pc, state, order,
                   orders, retry_order_creation, attempts>>

\* trader.py:417-464: the last order is filled, the loop order is prepared
PollFilled ==
    /\ Polling
    /\ LET lo == get_order(state.last_order_id)
       IN /\ ~oco_filled(lo, "take_profit")
          /\ order_filled(lo)
          /\ last_order' = <<lo>>
          /\ send_status_email(lo)
    /\ order' = None
    /\ attempts' = 0
    /\ IF retry_order_creation > 0
       THEN pc' = "nominal"
       ELSE \* `order` is unbound at trader.py:479: UnboundLocalError
            pc' = "idle"
    /\ order_parameters' = loop_order_parameters
    /\ UNCHANGED <<main_pc, user_input, events_received, other_worker, srvVars, cfgVars, histVars, alerts, envVars, termVars, state, orders,
                   retry_order_creation>>

\* ------------------------------------ _loop: creating the loop order

Submitting == pc \in {"nominal", "jump"}
Checking == pc \in {"nominal_check", "jump_check"}
CheckOf(p) == IF p = "nominal" THEN "nominal_check" ELSE "jump_check"
LoopOf(p) == IF p = "nominal_check" THEN "nominal" ELSE IF p = "jump_check" THEN "jump" ELSE p

\* trader.py:517-518
RecordOrder(o) ==
    /\ state' = [state EXCEPT !.last_order_id = o.id,
                              !.next_order_side = side_map[state.next_order_side]]
    /\ recorded' = Append(recorded, o.id)
    /\ status_emails' = 0

\* a retry loop that goes over to the jump prices after the first failure
NextAttemptEarlyJump ==
    IF LoopOf(pc) = "nominal"
    THEN /\ retry_order_creation' = config.retry_order_creation
         /\ pc' = "jump"
         /\ order_parameters' = jump_order_parameters
    ELSE /\ retry_order_creation - 1 > 0
         /\ retry_order_creation' = retry_order_creation - 1
         /\ pc' = LoopOf(pc)
         /\ order_parameters' =
                [order_parameters EXCEPT !.client_order_id = generate_order_id("loop")]

\* trader.py:474-476 / 502-504 followed by the loop conditions at 464, 479
\* and 492: an attempt failed and another attempt follows
NextAttempt ==
    IF retry_order_creation - 1 > 0
    THEN /\ retry_order_creation' = retry_order_creation - 1
         /\ pc' = LoopOf(pc)
         /\ order_parameters' =
                [order_parameters EXCEPT !.client_order_id = generate_order_id("loop")]
    ELSE /\ LoopOf(pc) = "nominal"
         /\ retry_order_creation' = config.retry_order_creation
         /\ pc' = "jump"
         /\ order_parameters' = jump_order_parameters

\* a worker that gives up after its first jump attempt
FirstJumpAttempt == LoopOf(pc) = "jump"

\* the attempt that just failed was the last jump attempt
LastJumpAttempt == LoopOf(pc) = "jump" /\ retry_order_creation = 1

\* trader.py:465-467 / 493-495: submit_order returns an order
LoopSubmitOk ==
    /\ Submitting
    /\ Len(orders) < MaxOrders
    /\ LET new == SubmittedOrder(order_parameters, state.last_order_id)
       IN /\ orders' = Append(orders, new)
          /\ order' = <<new>>
    /\ pc' = CheckOf(pc)
    /\ attempts' = attempts + 1
    /\ order_parameters' = Attempted(order_parameters)
    /\ UNCHANGED <<main_pc, user_input, events_received, other_worker, status_emails, srvVars, cfgVars, histVars, alerts, envVars, termVars, state, last_order,
                   retry_order_creation>>

\* trader.py:465 / 493: submit_order returns None (APIError), more attempts follow
LoopSubmitRejected ==
    /\ Submitting
    /\ ~LastJumpAttempt
    /\ order' = None
    /\ NextAttempt
    /\ attempts' = attempts + 1
    /\ UNCHANGED <<main_pc, user_input, events_received, other_worker, status_emails, srvVars, cfgVars, histVars, alerts, envVars, termVars, state, last_order,
                   orders>>

\* trader.py:493-512: the last jump attempt returns None, the worker terminates
LoopRetriesExhausted ==
    /\ Submitting
    /\ LastJumpAttempt
    /\ order' = None
    /\ retry_order_creation' = 0
    /\ attempts' = attempts + 1
    /\ IF strategy.enable_email_monitoring
       THEN send_termination_alert("Creating loop order failed.")
       ELSE UNCHANGED alerts
    /\ TerminateOk("Creating loop order failed.")
    /\ order_parameters' = [order_parameters EXCEPT !.client_order_id = generate_order_id("loop")]
    /\ UNCHANGED <<main_pc, user_input, events_received, status_emails, srvVars, cfgVars, histVars, envVars, state, last_order>>

\* the same, cancel_symbol_orders raising: caught by the catch-all
LoopRetriesExhaustedCancelRaises ==
    /\ Submitting
    /\ LastJumpAttempt
    /\ order' = None
    /\ retry_order_creation' = 0
    /\ attempts' = attempts + 1
    /\ IF strategy.enable_email_monitoring
       THEN send_termination_alert("Creating loop order failed.")
       ELSE UNCHANGED alerts
    /\ TerminateRaises("Creating loop order failed.", TRUE)
    /\ order_parameters' = [order_parameters EXCEPT !.client_order_id = generate_order_id("loop")]
    /\ UNCHANGED <<main_pc, user_input, events_received, status_emails, srvVars, cfgVars, histVars, envVars, state, last_order>>

\* trader.py:465 / 493 raising something other than APIError: catch-all
LoopSubmitRaises ==
    /\ Submitting
    /\ attempts' = attempts + 1
    /\ pc' = "idle"
    /\ order_parameters' = Attempted(order_parameters)
    /\ UNCHANGED <<main_pc, user_input, events_received, other_worker, status_emails, srvVars, cfgVars, histVars, alerts, envVars, termVars, state, order, last_order,
                   orders, retry_order_creation>>

\* trader.py:468 / 496: the cache read after order_status_check_delay raises
LoopCheckRaises ==
    /\ Checking
    /\ pc' = "idle"
    /\ UNCHANGED <<main_pc, user_input, events_received, other_worker, status_emails, srvVars, order_parameters, cfgVars, histVars, alerts, envVars, termVars, state, order, last_order,
                   orders, retry_order_creation, attempts>>

\* trader.py:468-471 / 496-499 and 514-518: the order is not rejected
LoopCheckAccepted ==
    /\ Checking
    /\ LET o == get_order(order[1].id)
       IN /\ o.status # "rejected"
          /\ order' = <<o>>
          /\ RecordOrder(o)
    /\ retry_order_creation' = config.retry_order_creation
    /\ pc' = "idle"
    /\ attempts' = 0
    /\ UNCHANGED <<main_pc, user_input, events_received, other_worker, srvVars, order_parameters, cfgVars, envVars, termVars, last_order, orders, triggered, alerts>>

\* trader.py:472-476 / 500-504: the order is rejected, more attempts follow
LoopCheckRejected ==
    /\ Checking
    /\ ~LastJumpAttempt
    /\ LET o == get_order(order[1].id)
       IN /\ o.status = "rejected"
          /\ order' = <<o>>
    /\ NextAttempt
    /\ UNCHANGED <<main_pc, user_input, events_received, other_worker, status_emails, srvVars, cfgVars, histVars, alerts, envVars, termVars, state, last_order,
                   orders, attempts>>

\* trader.py:500-518: the last jump attempt is rejected; `order` is a dict,
\* so the test at trader.py:507 does not terminate and the order is recorded
LoopCheckRejectedLast ==
    /\ Checking
    /\ LastJumpAttempt
    /\ LET o == get_order(order[1].id)
       IN /\ o.status = "rejected"
          /\ order' = <<o>>
          /\ RecordOrder(o)
    /\ retry_order_creation' = 0
    /\ pc' = "idle"
    /\ attempts' = 0
    /\ order_parameters' = [order_parameters EXCEPT !.client_order_id = generate_order_id("loop")]
    /\ UNCHANGED <<main_pc, user_input, events_received, other_worker, srvVars, cfgVars, envVars, termVars, last_order, orders, triggered, alerts>>

\* ------------------------------------------------------ the environment

\* the exchange fills order i (for an OCO order: its take profit)
GatewayFill(i) ==
    /\ orders[i].status = "new"
    /\ orders' = [orders EXCEPT ![i].status = "filled",
                    ![i].legs = IF @ = << >> THEN @ ELSE <<[status |-> "canceled"]>>]

\* the exchange fills the stop-loss leg of OCO order i, cancelling the parent
GatewayStopLoss(i) ==
    /\ orders[i].status = "new"
    /\ orders[i].legs # << >>
    /\ orders' = [orders EXCEPT ![i].status = "canceled",
                                ![i].legs = <<[status |-> "filled"]>>]

\* the exchange rejects order i
GatewayReject(i) ==
    /\ orders[i].status = "new"
    /\ orders' = [orders EXCEPT ![i].status = "rejected",
                    ![i].legs = IF @ = << >> THEN @ ELSE <<[status |-> "canceled"]>>]

\* order i is cancelled at the broker by someone else
GatewayCancel(i) ==
    /\ orders[i].status = "new"
    /\ orders' = [orders EXCEPT ![i] = Canceled(orders[i])]

GatewayEvent ==
    /\ \E i \in 1..Len(orders) :
          \/ GatewayFill(i)
          \/ GatewayStopLoss(i)
          \/ GatewayReject(i)
          \/ GatewayCancel(i)
    /\ UNCHANGED <<main_pc, user_input, events_received, other_worker, status_emails, srvVars, order_parameters, cfgVars, histVars, alerts, envVars, termVars, state, order, last_order,
                   retry_order_creation, pc, attempts>>

\* streamer.py trade_callback -> Server.run write of type order (zmq_msg.py:28-30)
IngestOrder ==
    /\ \E i \in 1..Len(orders) :
          /\ orders[i].status # "new"
          /\ get_order(i) # orders[i]
          /\ cacheOrders' = [k \in DOMAIN cacheOrders \cup {i} |->
                                IF k = i THEN orders[i] ELSE cacheOrders[k]]
    /\ UNCHANGED <<main_pc, user_input, events_received, other_worker, status_emails, srvVars, order_parameters, cfgVars, recorded, triggered, alerts, termVars, state, order, last_order,
                   retry_order_creation, pc, attempts, orders,
                   shutdown_flag, cachePrice>>

\* streamer.py quote_callback -> Server.run write of type price (zmq_msg.py:31-35)
IngestPrice ==
    /\ \E p \in Prices :
          /\ p # cachePrice
          /\ cachePrice' = p
          /\ triggered' = (triggered \/ Trigger(p, strategy.initial_order_side))
    /\ UNCHANGED <<main_pc, user_input, events_received, other_worker, status_emails, srvVars, order_parameters, cfgVars, recorded, alerts, termVars, state, order, last_order,
                   retry_order_creation, pc, attempts, orders,
                   shutdown_flag, cacheOrders>>

\* main.py:174-179: the supervisor sets the shutdown flag
SetShutdown ==
    /\ ~shutdown_flag
    /\ shutdown_flag' = TRUE
    /\ UNCHANGED <<main_pc, user_input, events_received, other_worker, status_emails, srvVars, order_parameters, cfgVars, histVars, alerts, termVars, state, order, last_order,
                   retry_order_creation, pc, attempts, orders,
                   cacheOrders, cachePrice>>

\* ------------------------------------------------- the cache server
\* Server.run (zmq_msg.py:16-36) in detail, with the REQ sockets of its
\* clients. The worker model above reads the projection cacheOrders /
\* cachePrice of the two maps; here the maps carry the written data.

\* Client.read (zmq_msg.py:46)
ReadRequest == [action |-> "read"]

\* Client.write (zmq_msg.py:51-54)
WriteRequest(type, data) == [action |-> "write", type |-> type, data |-> data]

\* messages the server has no branch for: an unknown type, an unknown action
UnknownTypeRequest == WriteRequest("trade", [id |-> 1])
UnknownActionRequest == [action |-> "ping"]

\* a client is inside Client.read / Client.write: its REQ socket waits
Busy(c) ==
    \/ requests[c] # None
    \/ message # None /\ message[1].client = c

Sent == Len(log) + Cardinality({c \in Clients : requests[c] # None})

\* an assignment that drops the other entries of the dict
UpsertAlone(map, key, value) == [k \in {key} |-> value]

\* the dict assignment self.orders[id] = order / self.prices[symbol] = {...}
Upsert(map, key, value) ==
    [k \in DOMAIN map \cup {key} |-> IF k = key THEN value ELSE map[k]]

\* the response built at zmq_msg.py:20-23
Snapshot ==
    [last_updated |-> last_updated, orders |-> server_orders, prices |-> server_prices]

\* socket.send_json of the REP socket: the reply goes to the sender of `message`
Reply(r) ==
    /\ replies' = [replies EXCEPT ![message[1].client] = <<r>>]
    /\ log' = [log EXCEPT ![Len(log)].reply = <<r>>]
    /\ message' = None

\* a worker that writes what it has read back to the cache
ClientReadWrites ==
    /\ \E c \in Readers :
          /\ ~Busy(c)
          /\ Sent < MaxRequests
          /\ \E m \in {ReadRequest} \cup {WriteRequest("order", d) : d \in OrderData} :
                requests' = [requests EXCEPT ![c] = <<m>>]
    /\ UNCHANGED <<main_pc, user_input, events_received, workerVars, last_updated, server_orders, server_prices,
                   server_running, message, replies, log, now>>

\* Trader.get_order / get_last_trade -> Client.read (trader.py:231, zmq_msg.py:45-48)
ClientRead ==
    /\ \E c \in Readers :
          /\ ~Busy(c)
          /\ Sent < MaxRequests
          /\ requests' = [requests EXCEPT ![c] = <<ReadRequest>>]
    /\ UNCHANGED <<main_pc, user_input, events_received, workerVars, last_updated, server_orders, server_prices,
                   server_running, message, replies, log, now>>

\* streamer callbacks -> Client.write (streamer.py:64-76, zmq_msg.py:50-56)
ClientWrite ==
    /\ \E c \in Writers :
          /\ ~Busy(c)
          /\ Sent < MaxRequests
          /\ \E m \in {WriteRequest("order", d) : d \in OrderData}
                   \cup {WriteRequest("price", d) : d \in PriceData} :
                requests' = [requests EXCEPT ![c] = <<m>>]
    /\ UNCHANGED <<main_pc, user_input, events_received, workerVars, last_updated, server_orders, server_prices,
                   server_running, message, replies, log, now>>

\* a client sends a message of an unknown type or action
ClientOther ==
    /\ \E c \in Writers :
          /\ ~Busy(c)
          /\ Sent < MaxRequests
          /\ \E m \in {UnknownTypeRequest, UnknownActionRequest} :
                requests' = [requests EXCEPT ![c] = <<m>>]
    /\ UNCHANGED <<main_pc, user_input, events_received, workerVars, last_updated, server_orders, server_prices,
                   server_running, message, replies, log, now>>

\* zmq_msg.py:18: recv_json takes the request of one client
ServerRecv ==
    /\ server_running
    /\ message = None
    /\ \E c \in Clients :
          /\ requests[c] # None
          /\ message' = <<[client |-> c, request |-> requests[c][1]]>>
          /\ requests' = [requests EXCEPT ![c] = None]
          /\ log' = Append(log, [client |-> c, request |-> requests[c][1],
                                 reply |-> None])
    /\ now' = now + 1
    /\ UNCHANGED <<main_pc, user_input, events_received, workerVars, last_updated, server_orders, server_prices,
                   server_running, replies>>

Handling(action) ==
    /\ server_running
    /\ message # None
    /\ message[1].request.action = action

\* a read that refreshes last_updated
ServerReadTouching ==
    /\ Handling("read")
    /\ last_updated' = now
    /\ Reply([last_updated |-> now, orders |-> server_orders,
              prices |-> server_prices])
    /\ UNCHANGED <<main_pc, user_input, events_received, workerVars, server_orders, server_prices,
                   server_running, requests, now>>

\* zmq_msg.py:19-24
ServerRead ==
    /\ Handling("read")
    /\ Reply(Snapshot)
    /\ UNCHANGED <<main_pc, user_input, events_received, workerVars, last_updated, server_orders, server_prices,
                   server_running, requests, now>>

\* zmq_msg.py:26-30 and 36
ServerWriteOrder ==
    /\ Handling("write")
    /\ message[1].request.type = "order"
    /\ last_updated' = now
    /\ LET order_ == message[1].request.data
       IN server_orders' = Upsert(server_orders, order_.id, order_)
    /\ Reply([status |-> "ok"])
    /\ UNCHANGED <<main_pc, user_input, events_received, workerVars, server_prices, server_running, requests, now>>

\* a price write that is acknowledged without being applied
ServerWritePriceLost ==
    /\ Handling("write")
    /\ message[1].request.type = "price"
    /\ last_updated' = now
    /\ Reply([status |-> "ok"])
    /\ UNCHANGED <<main_pc, user_input, events_received, workerVars, server_orders, server_prices, server_running,
                   requests, now>>

\* zmq_msg.py:26-27 and 31-36
ServerWritePrice ==
    /\ Handling("write")
    /\ message[1].request.type = "price"
    /\ last_updated' = now
    /\ LET symbol == message[1].request.data.symbol
           price == message[1].request.data.price
           timestamp == message[1].request.data.timestamp
       IN server_prices' = Upsert(server_prices, symbol,
                                  [price |-> price, timestamp |-> timestamp])
    /\ Reply([status |-> "ok"])
    /\ UNCHANGED <<main_pc, user_input, events_received, workerVars, server_orders, server_running, requests, now>>

\* zmq_msg.py:26-28, 31 and 36: a write of another type
ServerWriteOther ==
    /\ Handling("write")
    /\ message[1].request.type \notin {"order", "price"}
    /\ last_updated' = now
    /\ Reply([status |-> "ok"])
    /\ UNCHANGED <<main_pc, user_input, events_received, workerVars, server_orders, server_prices, server_running,
                   requests, now>>

\* zmq_msg.py:19, 26 and back to 18: no branch is taken and nothing is sent;
\* recv_json on a REP socket that owes a reply raises ZMQError and run ends
ServerUnknownAction ==
    /\ server_running
    /\ message # None
    /\ message[1].request.action \notin {"read", "write"}
    /\ server_running' = FALSE
    /\ UNCHANGED <<main_pc, user_input, events_received, workerVars, last_updated, server_orders, server_prices,
                   message, requests, replies, log, now>>

\* ------------------------------------------------------ the streamer
\* streamer.py: the callbacks the market-data stream calls, one event at a
\* time; Client.write returns when the server has replied

\* the trades the stream delivers to quote_callback (streamer.py:79): the
\* tape, the conditions and what quote_callback writes for the trade
Tapes == {"C", "A"}
Conditions == {{"@"}, {"T"}}
Quotes == [tape : Tapes, conditions : Conditions, data : PriceData]

\* valid_quote_conditions (streamer.py:35-39)
valid_quote_conditions(conditions) ==
    \E condition \in {" ", "I", "@"} : condition \in conditions

\* quote_callback (streamer.py:59-72): an event of another tape or with no
\* valid condition returns before the write
quote_callback ==
    /\ events_received < MaxEvents
    /\ ~Busy("streamer")
    /\ Sent < MaxRequests
    /\ \E quote \in Quotes :
          IF quote.tape \notin {" ", "B", "C"}
          THEN UNCHANGED requests
          ELSE IF ~valid_quote_conditions(quote.conditions)
          THEN UNCHANGED requests
          ELSE requests' = [requests EXCEPT
                               !["streamer"] = <<WriteRequest("price", quote.data)>>]
    /\ events_received' = events_received + 1
    /\ UNCHANGED <<main_pc, user_input, workerVars, last_updated, server_orders,
                   server_prices, server_running, message, replies, log, now>>

\* trade_callback (streamer.py:74-76)
trade_callback ==
    /\ events_received < MaxEvents
    /\ ~Busy("streamer")
    /\ Sent < MaxRequests
    /\ \E trade \in OrderData :
          requests' = [requests EXCEPT
                          !["streamer"] = <<WriteRequest("order", trade)>>]
    /\ events_received' = events_received + 1
    /\ UNCHANGED <<main_pc, user_input, workerVars, last_updated, server_orders,
                   server_prices, server_running, message, replies, log, now>>

\* ------------------------------------------------------ the supervisor
\* main (main.py:152-183) with two Trader threads: the worker and a second
\* worker that trades another symbol on the same account

\* trader.name (main.py:112): the name of the strategy module
Name == "stock_2"
OtherName == "stock_1"

\* the lines typed at the prompt, split at the blanks (main.py:127-128)
UserInputs ==
    {<<"">>, <<"status">>, <<"kill">>, <<"kill", "all">>,
     <<"kill", "stock_2">>, <<"kill", "stock_1">>, <<"kill", "stock_9">>}

\* get_user_input (main.py:126-130): zip stops at the shorter sequence
get_user_input(tokens) ==
    LET keys == <<"action", "target">>
        n == IF Len(tokens) < 2 THEN Len(tokens) ELSE 2
    IN [k \in {keys[i] : i \in 1..n} |->
           IF k = "action" THEN tokens[1] ELSE tokens[2]]

mainFrame == <<srvVars, cfgVars, histVars, termVars, alerts, state,
               retry_order_creation, pc, order, last_order, orders, attempts,
               order_parameters, cacheOrders, cachePrice, status_emails,
               events_received>>

\* a kill command that stops every Trader thread whatever the target
kill_selects_any(name, target) == TRUE

\* main.py:176: the test that selects the Trader threads a kill command stops
kill_selects(name, target) == name = target \/ target = "all"

\* main.py:156-158: no Trader thread is alive, main leaves its loop
MainAllTerminated ==
    /\ main_pc = "loop"
    /\ pc = "done"
    /\ ~other_worker.alive
    /\ main_pc' = "ended"
    /\ UNCHANGED <<mainFrame, shutdown_flag, other_worker, user_input>>

\* main.py:42-43 and 163-171: SIGINT raises ServiceExit inside the try
\* block, main opens the prompt
MainInterrupt ==
    /\ main_pc = "loop"
    /\ main_pc' = "prompt"
    /\ UNCHANGED <<mainFrame, shutdown_flag, other_worker, user_input>>

\* main.py:171-183: a line is typed at the prompt. `kill` without a target
\* raises KeyError at main.py:176 inside the except clause and main ends.
MainCommand ==
    /\ main_pc = "prompt"
    /\ \E tokens \in UserInputs :
          LET typed == get_user_input(tokens)
          IN /\ user_input' = typed
             /\ IF typed.action = "kill"
                THEN IF "target" \in DOMAIN typed
                     THEN /\ shutdown_flag' =
                                (shutdown_flag \/ kill_selects(Name, typed.target))
                          /\ other_worker' =
                                [other_worker EXCEPT !.shutdown_flag =
                                    @ \/ kill_selects(OtherName, typed.target)]
                          /\ main_pc' = "loop"
                     ELSE /\ main_pc' = "exception"
                          /\ UNCHANGED <<shutdown_flag, other_worker>>
                ELSE /\ main_pc' = "loop"
                     /\ UNCHANGED <<shutdown_flag, other_worker>>
    /\ UNCHANGED mainFrame

\* a second SIGINT while input() waits: ServiceExit is raised inside the
\* except clause (main.py:163-171) and leaves main
MainSecondInterrupt ==
    /\ main_pc = "prompt"
    /\ main_pc' = "exception"
    /\ UNCHANGED <<mainFrame, shutdown_flag, other_worker, user_input>>

\* ------------------------------------------------------ the second worker
\* another Trader thread of main, running trader.py for OtherSymbol

otherFrame == <<main_pc, user_input, events_received, status_emails, srvVars,
                cfgVars, histVars, envVars, termVars, alerts, state,
                retry_order_creation, pc, order, last_order, orders, attempts,
                order_parameters>>

\* Trader.submit_order of the second worker: an order for its symbol
OtherWorkerSubmits ==
    /\ other_worker.alive
    /\ ~other_worker.shutdown_flag
    /\ Len(other_worker.orders) < MaxOtherOrders
    /\ other_worker' = [other_worker EXCEPT !.orders =
            Append(@, [id |-> MaxOrders + Len(@) + 1, symbol |-> OtherSymbol,
                       side |-> "buy", status |-> "new", legs |-> << >>,
                       prev |-> 0])]
    /\ UNCHANGED otherFrame

\* the exchange fills order i of the second worker
OtherGatewayFill ==
    /\ \E i \in 1..Len(other_worker.orders) :
          /\ other_worker.orders[i].status = "new"
          /\ other_worker' = [other_worker EXCEPT !.orders[i].status = "filled"]
    /\ UNCHANGED otherFrame

\* _signals of the second worker sees its flag (trader.py:328-333,
\* 187-188), cancels the orders of its symbol and its thread ends
OtherWorkerTerminates ==
    /\ other_worker.alive
    /\ other_worker.shutdown_flag
    /\ other_worker' = [other_worker EXCEPT
            !.alive = FALSE,
            !.orders = [i \in 1..Len(@) |-> Canceled(@[i])]]
    /\ UNCHANGED otherFrame

\* ------------------------------------------------------- specifications

\* the steps of the worker thread in which no gateway call and no cache
\* read raises an unexpected exception
WorkerNoRaise ==
    \/ ShutdownTerminate
    \/ InitialSubmitOk
    \/ InitialSubmitRejected
    \/ InitialRetriesExhausted
    \/ PollNotFilled
    \/ PollTakeProfit
    \/ PollTakeProfitNoSender
    \/ PollFilled
    \/ LoopSubmitOk
    \/ LoopSubmitRejected
    \/ LoopRetriesExhausted
    \/ LoopCheckAccepted
    \/ LoopCheckRejected
    \/ LoopCheckRejectedLast

\* the steps in which a gateway call or a cache read raises, and the tick
\* that follows a raising initial submit_order
WorkerRaise ==
    \/ ShutdownTerminateRaises
    \/ InitialRetriesExhaustedCancelRaises
    \/ InitialSubmitRaises
    \/ LoopKeyError
    \/ PollRaises
    \/ PollTakeProfitCancelRaises
    \/ LoopRetriesExhaustedCancelRaises
    \/ LoopSubmitRaises
    \/ LoopCheckRaises

Worker == WorkerNoRaise \/ WorkerRaise

Environment ==
    \/ GatewayEvent
    \/ IngestOrder
    \/ SetShutdown

Next == Worker \/ Environment

\* the worker, the gateway, the ingest of order events and the supervisor
Spec == Init /\ [][Next]_vars

\* the worker thread is scheduled again and again until run_forever ends
SpecFair == Spec /\ WF_vars(Worker)

\* runs in which no gateway call and no cache read raises
NextNoRaise == WorkerNoRaise \/ Environment

SpecNoRaise == Init /\ [][NextNoRaise]_vars

SpecNoRaiseFair == SpecNoRaise /\ WF_vars(WorkerNoRaise)

\* the worker from its start to its first recorded order, with price ticks
\* reaching the cache (the worker itself never reads Server.prices)
NextPrice ==
    \/ InitialSubmitOk
    \/ InitialSubmitRejected
    \/ InitialRetriesExhausted
    \/ PollNotFilled
    \/ ShutdownTerminate
    \/ SetShutdown
    \/ IngestPrice

SpecPrice == InitPrice /\ [][NextPrice]_vars

\* the clients of the cache server: Client.read and Client.write
CacheClient ==
    \/ ClientRead
    \/ ClientWrite
    \/ ClientOther

\* Server.run
CacheServer ==
    \/ ServerRecv
    \/ ServerRead
    \/ ServerWriteOrder
    \/ ServerWritePrice
    \/ ServerWriteOther
    \/ ServerUnknownAction

NextCache == CacheClient \/ CacheServer

\* the cache server and its clients, next to a worker that has not started
InitCache ==
    /\ Init
    /\ config = [retry_order_creation |-> RetryOrderCreation]
    /\ strategy = [initial_order_side |-> "buy",
                   oco_initial_order |-> FALSE,
                   oco_loop_order |-> FALSE,
                   enable_email_monitoring |-> FALSE,
                   initial_trade_price |-> 100]

SpecCache == InitCache /\ [][NextCache]_vars

\* the streamer fed by the stream, the cache server and the reading workers
NextStream ==
    \/ quote_callback
    \/ trade_callback
    \/ ClientRead
    \/ ServerRecv
    \/ ServerRead
    \/ ServerWriteOrder
    \/ ServerWritePrice

SpecStream == InitCache /\ [][NextStream]_vars

Supervisor ==
    \/ MainAllTerminated
    \/ MainInterrupt
    \/ MainCommand
    \/ MainSecondInterrupt

\* the supervisor and a worker up to its first recorded order
NextMain ==
    \/ Supervisor
    \/ InitialSubmitOk
    \/ InitialSubmitRejected
    \/ InitialRetriesExhausted
    \/ PollNotFilled
    \/ ShutdownTerminate
    \/ GatewayEvent
    \/ OtherWorkerSubmits
    \/ OtherGatewayFill
    \/ OtherWorkerTerminates

SpecMain == Init /\ [][NextMain]_vars

\* ------------------------------------------------------------- claims

NonTerminal == {i \in 1..Len(orders) : orders[i].status \notin Terminal}
InLoopOrderCreation == pc \in {"nominal", "nominal_check", "jump", "jump_check"}

\* C1: when no gateway call and no cache read raises, at most one order of
\* the worker is non-terminal at the gateway at any time, and the worker is
\* creating a loop order only in a tick that read its last order as filled
\* (or its stop-loss leg as filled).
C1_AtMostOneInFlight ==
    /\ Cardinality(NonTerminal) <= 1
    /\ InLoopOrderCreation => (last_order # None /\ order_filled(last_order[1]))

\* the second order was submitted after the first was filled
C1_Witness ==
    /\ Len(orders) = 2
    /\ orders[1].status = "filled"
    /\ orders[2].status = "new"
    /\ recorded = <<1, 2>>

\* C2: also when a tick is abandoned after a successful submit_order, no two
\* orders submitted for the same fill (the same state['last_order_id']) are
\* non-terminal at the same time.
C2_NoSecondOrderForSameFill ==
    \A i, j \in 1..Len(orders) :
        (i < j /\ orders[i].prev = orders[j].prev)
            => (orders[i].status \in Terminal \/ orders[j].status \in Terminal)

\* C3: the orders successively recorded in state['last_order_id'] have the
\* sides initial_order_side, its opposite, initial_order_side, ..., and
\* state['next_order_side'] is the opposite of the side of the recorded order.
C3_SidesAlternate ==
    /\ \A k \in 1..Len(recorded) :
          orders[recorded[k]].side =
              IF k % 2 = 1 THEN strategy.initial_order_side
                           ELSE side_map[strategy.initial_order_side]
    /\ \A k \in 1..(Len(recorded) - 1) :
          orders[recorded[k]].side # orders[recorded[k + 1]].side
    /\ "last_order_id" \in DOMAIN state =>
          /\ recorded # << >>
          /\ state.last_order_id = recorded[Len(recorded)]
          /\ state.next_order_side # orders[state.last_order_id].side
          /\ state.next_order_side \in Sides

\* a buy was recorded, then filled, then a sell was recorded
C3_Witness ==
    /\ recorded = <<1, 2>>
    /\ orders[1].side = "buy"
    /\ orders[2].side = "sell"
    /\ state.next_order_side = "buy"

\* the first call of _loop of a worker whose state is empty makes a
\* submission attempt
InitialAttempt == InitialSubmitRejected \/ InitialRetriesExhausted

AllRejected == \A i \in 1..Len(orders) : orders[i].status = "rejected"

\* C5: if from some point on every submitted order is rejected and the
\* worker is not shut down, the worker terminates after exactly
\* retry_order_creation + 1 attempts with one call of cancel_symbol_orders.
C5_RetryExhaustion ==
    (<>[]AllRejected /\ []~shutdown_flag)
        => <>(/\ pc = "done"
              /\ attempts = config.retry_order_creation + 1
              /\ cancelCalls = 1)

\* C6: a tick that read the take profit of an OCO order as filled ends with
\* the worker terminated, in every configuration.
C6_TakeProfitTerminates ==
    (last_order # None /\ oco_filled(last_order[1], "take_profit")) => pc = "done"

\* C7: a tick that read the in-flight order as rejected or canceled has
\* cancelled the resting orders of the symbol.
C7_VoidAttemptCancels ==
    (/\ pc = "idle"
     /\ last_order # None
     /\ "last_order_id" \in DOMAIN state
     /\ last_order[1].id = state.last_order_id
     /\ last_order[1].status \in {"rejected", "canceled"}
     /\ ~oco_filled(last_order[1], "stop_loss"))
        => cancelCalls >= 1

\* C8: the order recorded as in flight by the loop phase was not read as
\* rejected by the check that followed its submission.
C8_NeverRecordsRejected ==
    (/\ pc = "idle"
     /\ order # None
     /\ "last_order_id" \in DOMAIN state
     /\ order[1].id = state.last_order_id)
        => order[1].status # "rejected"

\* C9: once the shutdown flag is set the worker's run ends, and a run that
\* has ended has called cancel_symbol_orders.
C9_ShutdownTerminates ==
    /\ shutdown_flag ~> (pc = "done")
    /\ [](pc = "done" => cancelCalls >= 1)

\* the worker was shut down while an order was in flight
C9_Witness ==
    /\ pc = "done"
    /\ reason = "User interruption."
    /\ recorded # << >>
    /\ cancelCalls >= 1

\* C10: when the worker's run has ended, cancel_symbol_orders has returned
\* normally.
C10_CancelCompletedBeforeExit == pc = "done" => cancelDone

\* C11: no unexpected exception ends the worker: run_forever is never left
\* by an exception other than the SystemExit of _terminate.
C11_UnexpectedNeverEndsWorker == exit # "exception"

\* a tick of _loop is ended by the catch-all of run_forever (trader.py:193-196)
TickFails ==
    \/ InitialSubmitRaises
    \/ LoopKeyError
    \/ PollRaises
    \/ PollTakeProfitNoSender
    \/ LoopSubmitRaises
    \/ LoopCheckRaises

\* C12: the step in which a tick ends with an unexpected exception leaves
\* the state dict and the retry counter as they were.
C12_FailedTickKeepsState ==
    [][TickFails => (state' = state /\ retry_order_creation' = retry_order_creation)]_vars

\* the server has just handled a write request of the given type
Handled(type) ==
    /\ message # None
    /\ message[1].request.action = "write"
    /\ message[1].request.type = type
    /\ message' = None

\* C13: a price write with a timestamp older than the cached one of the
\* same symbol leaves the cache unchanged, a newer one overwrites the entry.
C13_PriceMonotonic ==
    [][Handled("price") =>
          LET d == message[1].request.data
          IN d.symbol \in DOMAIN server_prices =>
                IF d.timestamp < server_prices[d.symbol].timestamp
                THEN server_prices' = server_prices
                ELSE server_prices'[d.symbol] =
                         [price |-> d.price, timestamp |-> d.timestamp]]_vars

\* C14: an order update older than the cached one of the same id is dropped,
\* and a cached terminal status is never replaced by an earlier status.
C14_OrderMonotonic ==
    [][/\ Handled("order") =>
             LET d == message[1].request.data
             IN (d.id \in DOMAIN server_orders
                    /\ d.updated_at < server_orders[d.id].updated_at)
                   => server_orders' = server_orders
       /\ \A id \in DOMAIN server_orders :
             server_orders[id].status \in Terminal
                 => server_orders'[id].status \in Terminal]_vars

IsRead(k) == log[k].request.action = "read"

\* C15: two read requests handled one after the other return the same
\* snapshot, and handling a read leaves last_updated and both maps unchanged.
C15_ReadIdempotent ==
    /\ [](\A k \in 1..(Len(log) - 1) :
             (IsRead(k) /\ IsRead(k + 1) /\ log[k + 1].reply # None)
                 => log[k].reply = log[k + 1].reply)
    /\ [][(Handling("read") /\ message' = None)
             => UNCHANGED <<last_updated, server_orders, server_prices>>]_vars

\* two reads after a price write returned the same, non-empty snapshot
C15_Witness ==
    /\ Len(log) >= 3
    /\ log[1].request.action = "write" /\ log[1].request.type = "price"
    /\ IsRead(2) /\ IsRead(3)
    /\ log[3].reply # None
    /\ log[2].reply = log[3].reply
    /\ log[3].reply[1].prices # << >>

\* C16: every request the server received has got its reply before the
\* server receives the next one or stops.
C16_OneReplyPerRequest ==
    /\ \A k \in 1..(Len(log) - 1) : log[k].reply # None
    /\ (log # << >> /\ (message = None \/ ~server_running))
          => log[Len(log)].reply # None

\* C17: a write of type order or price is acknowledged with status ok, sets
\* last_updated and upserts exactly one entry of its own map.
C17_WriteFrame ==
    [][(Handled("order") \/ Handled("price")) =>
          LET c == message[1].client
              type == message[1].request.type
              d == message[1].request.data
          IN /\ replies'[c] = <<[status |-> "ok"]>>
             /\ last_updated' = now
             /\ type = "order" =>
                   /\ server_prices' = server_prices
                   /\ DOMAIN server_orders' = DOMAIN server_orders \cup {d.id}
                   /\ server_orders'[d.id] = d
                   /\ \A k \in DOMAIN server_orders \ {d.id} :
                         server_orders'[k] = server_orders[k]
             /\ type = "price" =>
                   /\ server_orders' = server_orders
                   /\ DOMAIN server_prices' = DOMAIN server_prices \cup {d.symbol}
                   /\ server_prices'[d.symbol] =
                          [price |-> d.price, timestamp |-> d.timestamp]
                   /\ \A k \in DOMAIN server_prices \ {d.symbol} :
                         server_prices'[k] = server_prices[k]]_vars

\* both maps are filled, the price map with two symbols
C17_Witness ==
    /\ DOMAIN server_prices = Symbols
    /\ server_orders # << >>
    /\ last_updated = now
    /\ replies["streamer"] = <<[status |-> "ok"]>>

RECURSIVE Applied(_, _)
\* the orders (type = "order") or prices (type = "price") map that results
\* from applying the writes among the first n received requests, in order
Applied(type, n) ==
    IF n = 0 THEN << >>
    ELSE LET r == log[n].request
             before == Applied(type, n - 1)
         IN IF r.action = "write" /\ r.type = type /\ log[n].reply # None
            THEN IF type = "order"
                 THEN [k \in DOMAIN before \cup {r.data.id} |->
                          IF k = r.data.id THEN r.data ELSE before[k]]
                 ELSE [k \in DOMAIN before \cup {r.data.symbol} |->
                          IF k = r.data.symbol
                          THEN [price |-> r.data.price,
                                timestamp |-> r.data.timestamp]
                          ELSE before[k]]
            ELSE before

\* the last request of client c that has been replied to
LastReplied(c) ==
    LET ks == {k \in 1..Len(log) : log[k].client = c /\ log[k].reply # None}
    IN IF ks = {} THEN 0 ELSE CHOOSE k \in ks : \A j \in ks : j <= k

\* C18: with concurrent clients the server handles one request at a time:
\* every read reply holds the maps that result from the writes acknowledged
\* before it, in processing order, and every client holds the reply to its
\* own last request.
C18_TotalOrder ==
    /\ \A k \in 1..Len(log) :
          (IsRead(k) /\ log[k].reply # None) =>
              /\ log[k].reply[1].orders = Applied("order", k - 1)
              /\ log[k].reply[1].prices = Applied("price", k - 1)
    /\ \A k \in 1..(Len(log) - 1) : log[k].reply # None
    /\ \A c \in Clients :
          replies[c] = IF LastReplied(c) = 0 THEN None
                       ELSE log[LastReplied(c)].reply
    /\ \A c \in Readers :
          replies[c] # None => "orders" \in DOMAIN replies[c][1]
    /\ \A c \in Writers :
          replies[c] # None => replies[c][1] = [status |-> "ok"]

\* a reader sent its read while the writer's request was being handled, and
\* both readers hold snapshots, the later one with the write applied
C18_Witness ==
    /\ Len(log) = 4
    /\ log[1].client = "trader1" /\ log[2].client = "streamer"
    /\ log[3].client = "trader2" /\ log[4].client = "streamer"
    /\ log[2].request.type = "price"
    /\ replies["trader1"] # None /\ replies["trader1"][1].prices = << >>
    /\ replies["trader2"] # None /\ replies["trader2"][1].prices # << >>
    /\ requests["trader1"] = None

\* C19: a worker that has terminated with alerting enabled has sent the
\* termination alert for the reason it terminated with.
C19_AlertOnEveryTermination ==
    (pc = "done" /\ exit = "SystemExit" /\ strategy.enable_email_monitoring)
        => reason \in alerts

\* C20: once _terminate has raised SystemExit the worker makes no further
\* step: its state, its retry counter and its position stay as they are and
\* it neither submits nor cancels an order.
C20_TerminatedIsAbsorbing ==
    [][exit = "SystemExit" =>
          /\ UNCHANGED <<state, retry_order_creation, pc, order, last_order,
                         attempts, cancelCalls, cancelDone, exit, reason,
                         recorded, alerts>>
          /\ Len(orders') = Len(orders)]_vars

\* the worker terminated after recording an order, and the shutdown flag
\* is set on the terminated worker
C20_Witness ==
    /\ exit = "SystemExit"
    /\ pc = "done"
    /\ recorded # << >>
    /\ cancelCalls = 1
    /\ shutdown_flag

\* C21: a worker only sends read requests, and last_updated and the two
\* maps of the cache change only while the server handles a request of the
\* streamer.
C21_OnlyIngestWrites ==
    /\ [](\A c \in Readers :
             requests[c] # None => requests[c][1].action = "read")
    /\ [][<<last_updated, server_orders, server_prices>>'
              # <<last_updated, server_orders, server_prices>>
             => (message # None /\ message[1].client \in Writers)]_vars

\* a worker holds a snapshot with an order the streamer wrote
C21_Witness ==
    /\ replies["trader1"] # None
    /\ replies["trader1"][1].orders # << >>
    /\ replies["trader1"][1].orders = server_orders

\* C22: main has left its loop only if no worker thread is alive.
C22_SupervisorOutlivesWorkers ==
    main_pc \in {"ended", "exception"} => (pc = "done" /\ ~other_worker.alive)

\* C23: a worker whose initial submit_order raised an unexpected exception
\* records an order on a later tick, unless it is shut down.
C23_RecoversAfterFailedInitialSubmit ==
    (pc = "idle" /\ state # << >> /\ "last_order_id" \notin DOMAIN state)
        ~> (recorded # << >> \/ shutdown_flag \/ pc = "done")

NominalPhase == pc \in {"nominal", "nominal_check"}
JumpPhase == pc \in {"jump", "jump_check"}
PricesOf(p) == [limit_price |-> p.limit_price, stop_price |-> p.stop_price]

\* C24: in one tick the jump loop is entered only from the nominal loop and
\* only when the failed nominal attempt was the last of the counter; the
\* attempts of the jump loop carry the jump prices, those of the nominal
\* loop the nominal prices, and no nominal attempt follows a jump attempt.
C24_NominalBeforeJump ==
    /\ [](NominalPhase =>
             PricesOf(order_parameters)
                 = LoopPrices(order_parameters.side, order_parameters.oco))
    /\ [](JumpPhase =>
             /\ PricesOf(order_parameters)
                   = JumpPrices(order_parameters.side, order_parameters.oco)
             /\ attempts >= 1)
    /\ [][(pc' \in {"jump", "jump_check"} /\ ~JumpPhase)
             => (NominalPhase /\ retry_order_creation = 1)]_vars
    /\ [][JumpPhase => pc' \notin {"nominal", "nominal_check"}]_vars

\* a jump attempt is under way after two nominal attempts
C24_Witness ==
    /\ pc = "jump_check"
    /\ attempts = 3
    /\ config.retry_order_creation = 2

C26_PricesFixed ==
    /\ \A i \in 1..Len(orders) :
          LET o == orders[i]
          IN IF o.prev = 0
             THEN PricesOf(o) = InitialPrices(o.side, o.legs # << >>)
             ELSE PricesOf(o) \in {LoopPrices(o.side, o.legs # << >>),
                                  JumpPrices(o.side, o.legs # << >>)}
    /\ NominalPhase =>
          PricesOf(order_parameters)
              = LoopPrices(state.next_order_side, loop_is_oco(state.next_order_side))
    /\ JumpPhase =>
          PricesOf(order_parameters)
              = JumpPrices(state.next_order_side, loop_is_oco(state.next_order_side))

\* the second order was accepted at jump prices, the third at nominal prices
C26_Witness ==
    /\ Len(orders) = 3
    /\ recorded = <<1, 2, 3>>
    /\ PricesOf(orders[2]) = JumpPrices(orders[2].side, orders[2].legs # << >>)
    /\ PricesOf(orders[3]) = LoopPrices(orders[3].side, orders[3].legs # << >>)

\* a step in which submit_order is called
SubmissionStep == attempts' = attempts + 1 \/ Len(orders') = Len(orders) + 1

\* C27: every submission is made with a client order id that no earlier
\* attempt was made with, prefixed initial if and only if the state is empty,
\* at most 48 characters long, and the id of an order at the gateway never
\* changes.
C27_FreshClientOrderId ==
    /\ [][SubmissionStep =>
             LET id == IF initial_run THEN order_parameters'.client_order_id
                                      ELSE order_parameters.client_order_id
             IN /\ id.prefix = IF initial_run THEN "initial" ELSE "loop"
                /\ ~initial_run => ~id.used
                /\ id.length <= MaxClientOrderIdLength
                /\ Len(orders') = Len(orders) + 1 =>
                      orders'[Len(orders')].client_order_id = id.prefix]_vars
    /\ [][\A i \in 1..Len(orders) :
             orders'[i].client_order_id = orders[i].client_order_id]_vars

\* a loop order was accepted on the second attempt of its tick
C27_Witness ==
    /\ Len(orders) = 2
    /\ orders[1].client_order_id = "initial"
    /\ orders[2].client_order_id = "loop"
    /\ pc = "nominal_check"
    /\ attempts = 2

\* the stop-loss leg of a bracket order is filled, the order itself is not
StopLossFilled(o) == o.legs # << >> /\ o.legs[1].status = "filled" /\ o.status # "filled"

\* C28: a worker that reads the stop-loss leg of its bracket order as filled
\* takes the branch of a fill: it neither terminates nor idles, it creates
\* the next loop order with side next_order_side, and recording that order
\* flips next_order_side.
C28_StopLossIsAFill ==
    /\ (/\ pc = "idle" /\ ~shutdown_flag
        /\ "last_order_id" \in DOMAIN state
        /\ StopLossFilled(get_order(state.last_order_id)))
          => /\ ENABLED PollFilled
             /\ ~ENABLED PollNotFilled
             /\ ~ENABLED PollTakeProfit
             /\ ~ENABLED PollTakeProfitNoSender
    /\ (InLoopOrderCreation /\ StopLossFilled(last_order[1]))
          => /\ exit = "running"
             /\ order_parameters.side = state.next_order_side
    /\ \A k \in 1..(Len(recorded) - 1) :
          StopLossFilled(orders[recorded[k]])
              => orders[recorded[k + 1]].side # orders[recorded[k]].side

\* the order that follows a stopped-out bracket order is recorded
C28_Witness ==
    /\ recorded = <<1, 2>>
    /\ StopLossFilled(orders[1])
    /\ orders[2].side # orders[1].side
    /\ state.next_order_side = orders[1].side
    /\ exit = "running"

\* C29: the termination for a user interruption starts only between two
\* ticks; a tick during which the flag is set goes on with its attempts.
C29_ShutdownNeverPreempts ==
    /\ [][(cancelCalls' # cancelCalls /\ reason' = "User interruption.")
             => pc = "idle"]_vars
    /\ [][(shutdown_flag /\ InLoopOrderCreation)
             => (pc' # "done" \/ reason' = "Creating loop order failed.")]_vars

\* the flag is set while a jump attempt of a tick is being checked
C29_Witness ==
    /\ shutdown_flag
    /\ pc = "jump_check"
    /\ exit = "running"

\* C30: when a termination alert has been sent, cancel_symbol_orders has
\* been performed.
C30_CancelBeforeAlert == alerts # {} => cancelDone

\* what the cache holds for an order id
CacheView(order_id) ==
    IF order_id \in DOMAIN cacheOrders
    THEN cacheOrders[order_id]
    ELSE [id |-> order_id, status |-> "new", legs |-> << >>]

\* the worker is about to look at its last order
PollingAbsent == Polling /\ state.last_order_id \notin DOMAIN cacheOrders

\* the worker is about to look at the order it just submitted
CheckingAbsent == Checking /\ order[1].id \notin DOMAIN cacheOrders

\* C33: every order status the worker looks at, of its last order at the
\* start of a tick and of the order it just submitted, is what the cache
\* holds for that order id, whatever the gateway says about the order; as
\* long as the cache does not show the last order filled the worker creates
\* no order and does not terminate for a take profit, and the worker
\* lists the orders of the gateway only in the step that terminates it.
C33_StatusOnlyFromCache ==
    /\ [][last_order' # last_order
            => last_order' = <<CacheView(state.last_order_id)>>]_vars
    /\ [][(Checking /\ order' # order)
            => order' = <<CacheView(order[1].id)>>]_vars
    /\ []((Polling /\ ~order_filled(CacheView(state.last_order_id)))
            => ~ENABLED PollFilled)
    /\ []((Polling /\ ~oco_filled(CacheView(state.last_order_id), "take_profit"))
            => ~ENABLED PollTakeProfit)
    /\ [][cancelCalls' # cancelCalls => pc' = "done"]_vars

\* the gateway has filled the in-flight order, the cache does not hold it,
\* and the worker has looked at it and seen it as new
C33_Witness ==
    /\ pc = "idle"
    /\ "last_order_id" \in DOMAIN state
    /\ state.last_order_id = 2
    /\ orders[2].status = "filled"
    /\ 2 \notin DOMAIN cacheOrders
    /\ last_order = <<CacheView(2)>>

\* C36: while the cache holds nothing for the id of the last order, a tick
\* finds it not filled: it creates no order, does not terminate and leaves
\* the state alone; while the cache holds nothing for the id of the order
\* just submitted, the check after the submission accepts it and records it.
C36_AbsentIsNew ==
    /\ [](PollingAbsent
            => /\ ENABLED PollNotFilled
               /\ ~ENABLED PollFilled
               /\ ~ENABLED PollTakeProfit
               /\ ~ENABLED PollTakeProfitCancelRaises
               /\ ~ENABLED PollTakeProfitNoSender)
    /\ [][(PollingAbsent /\ last_order' # last_order)
            => /\ last_order'[1].status = "new"
               /\ state' = state
               /\ orders' = orders
               /\ pc' = "idle"
               /\ exit' = exit]_vars
    /\ [](CheckingAbsent
            => /\ ENABLED LoopCheckAccepted
               /\ ~ENABLED LoopCheckRejected
               /\ ~ENABLED LoopCheckRejectedLast)
    /\ [][(CheckingAbsent /\ pc' = "idle" /\ order' # order)
            => /\ state'.last_order_id = order[1].id
               /\ retry_order_creation' = config.retry_order_creation]_vars

\* a loop order was accepted and later looked at, both while the cache held
\* nothing for its id (the cache never forgets an order)
C36_Witness ==
    /\ pc = "idle"
    /\ "last_order_id" \in DOMAIN state
    /\ state.last_order_id = 2
    /\ 2 \notin DOMAIN cacheOrders
    /\ last_order # None
    /\ last_order[1].id = 2
    /\ last_order[1].status = "new"

\* C37: an order of the loop phase is a bracket order exactly when the
\* strategy asks for bracket loop orders and its side is sell; a loop order
\* on the buy side is a plain order, at the nominal and at the jump prices.
C37_LoopBracketOnlyOnSell ==
    /\ \A i \in 1..Len(orders) :
          orders[i].prev # 0
             => ((orders[i].legs # << >>)
                    <=> (strategy.oco_loop_order /\ orders[i].side = "sell"))
    /\ InLoopOrderCreation
          => (order_parameters.oco
                 <=> (strategy.oco_loop_order /\ order_parameters.side = "sell"))

\* with bracket loop orders asked for, a plain loop buy order and a bracket
\* loop sell order have been created
C37_Witness ==
    /\ strategy.oco_loop_order
    /\ Len(orders) = 3
    /\ orders[2].prev # 0 /\ orders[2].side = "buy" /\ orders[2].legs = << >>
    /\ orders[3].prev # 0 /\ orders[3].side = "sell" /\ orders[3].legs # << >>

\* C38: the retry counter stays between zero and its configured value, and
\* it is back at the configured value whenever the worker is between two
\* ticks with an order recorded, no tick having failed.
C38_CounterRestored ==
    /\ retry_order_creation \in 0..config.retry_order_creation
    /\ (pc = "idle" /\ "last_order_id" \in DOMAIN state)
          => retry_order_creation = config.retry_order_creation

\* the account after a step differs from the account before it
OrderChanged(i) == orders'[i] # orders[i]

\* C31: a step in which the worker cancels orders leaves the orders of the
\* second worker, which are of another symbol, as they were; an order it
\* changes is of the worker's symbol, was neither canceled nor filled and
\* is canceled afterwards; once the cancellation has returned no order of
\* the worker's symbol is still open.
C31_CancelsOnlyOwnSymbol ==
    /\ [][cancelCalls' # cancelCalls
            => /\ other_worker'.orders = other_worker.orders
               /\ Len(orders') = Len(orders)
               /\ \A i \in 1..Len(orders) :
                     OrderChanged(i)
                        => /\ orders[i].symbol = Symbol
                           /\ orders[i].status \notin {"canceled", "filled"}
                           /\ orders'[i].status = "canceled"]_vars
    /\ [][(cancelDone' /\ ~cancelDone)
            => \A i \in 1..Len(orders') : orders'[i].status # "new"]_vars

\* the worker has terminated and cancelled its open order while an order of
\* the second worker is still open
C31_Witness ==
    /\ pc = "done"
    /\ cancelDone
    /\ Len(orders) = 1
    /\ orders[1].status = "canceled"
    /\ Len(other_worker.orders) = 1
    /\ other_worker.orders[1].symbol = OtherSymbol
    /\ other_worker.orders[1].status = "new"

\* the line typed at the prompt is a kill command for the given target set
Kills(typed, targets) ==
    /\ typed.action = "kill"
    /\ "target" \in DOMAIN typed
    /\ typed.target \in targets

\* C32: a command that returns to the supervision loop sets the flag of the
\* worker exactly when it is `kill` with the worker's name or `all`, and
\* the flag of the second worker exactly when it is `kill` with that
\* worker's name or `all`; no flag changes otherwise; a step of the
\* supervisor changes nothing of a worker but its flag, the termination of
\* one worker leaves the other worker as it was, and a worker terminates
\* for a user interruption only with its own flag set.
C32_KillSetsNamedFlag ==
    /\ [][(main_pc = "prompt" /\ main_pc' = "loop")
            => /\ shutdown_flag'
                    = (shutdown_flag \/ Kills(user_input', {Name, "all"}))
               /\ other_worker'.shutdown_flag
                    = (other_worker.shutdown_flag
                          \/ Kills(user_input', {OtherName, "all"}))]_vars
    /\ [][~(main_pc = "prompt" /\ main_pc' = "loop")
            => /\ shutdown_flag' = shutdown_flag
               /\ other_worker'.shutdown_flag = other_worker.shutdown_flag]_vars
    /\ [][main_pc' # main_pc
            => /\ UNCHANGED <<pc, state, orders, order, last_order, exit>>
               /\ other_worker'.alive = other_worker.alive
               /\ other_worker'.orders = other_worker.orders]_vars
    /\ [][(pc # "done" /\ pc' = "done") => other_worker' = other_worker]_vars
    /\ [][(other_worker.alive /\ ~other_worker'.alive)
            => /\ other_worker.shutdown_flag
               /\ UNCHANGED <<pc, state, orders, shutdown_flag, exit>>]_vars
    /\ [](reason = "User interruption." => shutdown_flag)

\* `kill stock_2` was typed last: the worker has terminated, the second
\* worker runs on with its flag clear and its order open
C32_Witness ==
    /\ main_pc = "loop"
    /\ shutdown_flag
    /\ Kills(user_input, {Name})
    /\ pc = "done"
    /\ ~other_worker.shutdown_flag
    /\ other_worker.alive
    /\ Len(other_worker.orders) = 1
    /\ other_worker.orders[1].status = "new"

\* C34: at most one immediate status e-mail is sent about the fill or the
\* rejection of one order.
C34_OneImmediateEmailPerEvent == status_emails <= 1

\* the writes the streamer has sent to the cache server
StreamerWrites ==
    Cardinality({k \in 1..Len(log) : log[k].client = "streamer"})
        + (IF requests["streamer"] # None THEN 1 ELSE 0)

\* C35: the streamer has sent one write to the cache for every event the
\* stream has delivered to its callbacks.
C35_EveryEventWritten == StreamerWrites = events_received

====
